---- MODULE Spec2Model ----
(***************************************************************************)
(* extemplate: template inheritance on top of html/template.               *)
(*                                                                         *)
(* The engine (type Extemplate) holds a shared namespace, a pristine       *)
(* backup of it, the compiled set (name -> template), the auto-reload      *)
(* flag, the scanned root and extensions and the fingerprint of the last   *)
(* scan.  The template directory is modelled as a small disk of files,     *)
(* each holding one of a fixed catalogue of contents and a modification    *)
(* time.                                                                   *)
(*                                                                         *)
(* html/template itself is a library.  What the engine relies on is        *)
(* modelled by Trees/Associate/Parse/Execute below:                        *)
(*   - Parse(text) of a template named n yields one tree for n (the text   *)
(*     outside definitions) and one tree per {{define}}/{{block}};         *)
(*   - a syntax error leaves the namespace untouched;                      *)
(*   - a tree replaces an existing one of the same name, except that an    *)
(*     empty tree (white space only) never replaces an existing template;  *)
(*   - Clone yields an independent copy of a namespace;                    *)
(*   - Execute fails only for a template without tree or a call of an      *)
(*     undefined template.                                                 *)
(*                                                                         *)
(* An engine is loaded once, by ParseDir or by ParseStatic, and the        *)
(* package variable staticTemplates is set, if at all, before that, as     *)
(* the generated init() does.  A call that never returns leaves the        *)
(* engine in phase "hung", a call that panics in phase "panicked".         *)
(*                                                                         *)
(* Texts are sequences of tokens.  The first line of a file is held token  *)
(* by token and newTemplateFile runs the regular expression over it; the   *)
(* text after the first line is an entry of the catalogue of contents.     *)
(*                                                                         *)
(* Seven specifications: Spec (one caller, a directory that changes),       *)
(* SpecArgs (one caller, every shape of data arguments), SpecConc          *)
(* (several callers inside ExecuteTemplate at once), SpecFile              *)
(* (newTemplateFile on every first line, after Delims), SpecRoot           *)
(* (ParseDir with every spelling of the directory), SpecOrder (a           *)
(* directory with several files without layout) and SpecRead (one caller,  *)
(* files removed between the scan and the reads of a reload).              *)
(***************************************************************************)
EXTENDS Integers, Sequences, FiniteSets, TLC

\* ------------------------------------------------------------------ bounds
MaxClock == 1       \* the file system clock runs 0..MaxClock
MaxOps   == 1       \* file system modifications per behaviour
MaxCalls == 2       \* ExecuteTemplate calls per behaviour
MaxArgs  == 4       \* data arguments of one ExecuteTemplate call
MaxCallers == 2     \* goroutines calling ExecuteTemplate at the same time
MaxSpaces == 1      \* spaces in a row inside a directive line

\* --------------------------------------------------------------- universe
Names  == {"a", "b", "c"}          \* logical template names on disk
Ghost  == "m"                      \* a name no file ever has
RootDir == <<"examples", "/">>       \* the directory of the templates, as the tests spell it

Nil     == [nil |-> TRUE]
NoErr   == "nil"
NoHash  == [nil |-> TRUE, listing |-> {}]     \* the nil []byte of a fresh engine

\* ---------------------------------------------------------------- strings
\* A string or []byte is a sequence of tokens: a delimiter, a keyword, a
\* quote, a separator, a space, a line terminator or a word, each token
\* being the characters it is written with.
At(s, i) == IF i \in DOMAIN s THEN s[i] ELSE ""
RECURSIVE Join(_)
Join(s) == IF s = <<>> THEN "" ELSE Head(s) \o Join(Tail(s))
RECURSIVE ByteLen(_)
ByteLen(s) == IF s = <<>> THEN 0 ELSE Len(Head(s)) + ByteLen(Tail(s))
\* the first position from i on that holds no space
SkipSpaces(s, i) ==
  CHOOSE j \in i..(Len(s) + 1) : At(s, j) # " " /\ \A k \in i..(j - 1) : s[k] = " "

HasPrefix(s, prefix) == Len(prefix) <= Len(s) /\ SubSeq(s, 1, Len(prefix)) = prefix
\* strings.TrimPrefix
TrimPrefix(s, prefix) ==
  IF HasPrefix(s, prefix) THEN SubSeq(s, Len(prefix) + 1, Len(s)) ELSE s
\* strings.TrimSuffix
TrimSuffix(s, suffix) ==
  IF Len(suffix) <= Len(s) /\ SubSeq(s, Len(s) - Len(suffix) + 1, Len(s)) = suffix
    THEN SubSeq(s, 1, Len(s) - Len(suffix)) ELSE s

\* extendsRegex, \{\{ *?extends +?"(.+?)" *?\}\}: the ends of a capture that
\* starts at p (a closing quote, spaces, "}}"; no line terminator inside)
CaptureEnds(line, p) ==
  { e \in (p + 1)..Len(line) :
      /\ line[e] = "\""
      /\ At(line, SkipSpaces(line, e + 1)) = "}}"
      /\ \A k \in p..(e - 1) : line[k] # "\n" }
\* the regular expression matches from position i
MatchAt(line, i) ==
  LET k == SkipSpaces(line, i + 1)
      q == SkipSpaces(line, k + 1)
  IN  /\ At(line, i) = "{{"
      /\ At(line, k) = "extends"
      /\ q > k + 1
      /\ At(line, q) = "\""
      /\ CaptureEnds(line, q + 1) # {}
\* extendsRegex.FindSubmatch(line): the leftmost match and its shortest
\* capture; m[1] is the captured path
FindSubmatch(line) ==
  IF \E i \in DOMAIN line : MatchAt(line, i)
    THEN LET i == CHOOSE i \in DOMAIN line :
                    MatchAt(line, i) /\ \A j \in 1..(i - 1) : ~MatchAt(line, j)
             q == SkipSpaces(line, SkipSpaces(line, i + 1) + 1)
             e == CHOOSE e \in CaptureEnds(line, q + 1) :
                    \A f \in CaptureEnds(line, q + 1) : e <= f
         IN  [nil |-> FALSE, m1 |-> SubSeq(line, q + 1, e - 1)]
    ELSE [nil |-> TRUE, m1 |-> <<>>]

\* a first line that extends the file `path`, as the examples write it
ExtendsLine(path) == <<"{{", " ", "extends", " ", "\"", path, "\"", " ", "}}", "\n">>
HtmlLine == <<"<html>", "\n">>

\* The catalogue of file contents.  first: the first line of the file; the
\* other fields describe the text after it.  body: what the text outside
\* definitions is ("none": white space only, "plain": text, "callsX": text
\* that renders block X); defX: how the text defines X ("none", "empty": a
\* definition with a white-space body, "text"); ok: whether the text is
\* syntactically valid.
ContentTable ==
  << [first |-> HtmlLine,         body |-> "callsX", defX |-> "text",  ok |-> TRUE],   \* 1 layout with {{block "X"}}
     [first |-> HtmlLine,         body |-> "plain",  defX |-> "none",  ok |-> TRUE],   \* 2 plain root
     [first |-> HtmlLine,         body |-> "plain",  defX |-> "none",  ok |-> TRUE],   \* 3 plain root, other text
     [first |-> ExtendsLine("a"), body |-> "none",   defX |-> "text",  ok |-> TRUE],   \* 4 extends a, defines X
     [first |-> ExtendsLine("b"), body |-> "none",   defX |-> "text",  ok |-> TRUE],   \* 5 extends b, defines X
     [first |-> ExtendsLine("b"), body |-> "none",   defX |-> "empty", ok |-> TRUE],   \* 6 extends b, empty X
     [first |-> ExtendsLine("c"), body |-> "none",   defX |-> "text",  ok |-> TRUE],   \* 7 extends c, defines X
     [first |-> ExtendsLine("m"), body |-> "none",   defX |-> "text",  ok |-> TRUE],   \* 8 extends a missing file
     [first |-> HtmlLine,         body |-> "plain",  defX |-> "none",  ok |-> FALSE],  \* 9 root with a syntax error
     [first |-> ExtendsLine("a"), body |-> "none",   defX |-> "text",  ok |-> FALSE],  \* 10 child with a syntax error
     [first |-> ExtendsLine("a"), body |-> "none",   defX |-> "none",  ok |-> TRUE],   \* 11 extends a, defines nothing
     [first |-> ExtendsLine("b"), body |-> "none",   defX |-> "none",  ok |-> TRUE],   \* 12 extends b, defines nothing
     [first |-> HtmlLine,         body |-> "callsX", defX |-> "text",  ok |-> TRUE] >> \* 13 another layout with {{block "X"}}

\* A []byte: the tokens it starts with (head), then the text that entry
\* `tail` of the catalogue describes (tail = 0: nothing more).  The text of a
\* catalogue entry starts on a line of its own.
Bytes(head, tail) == [head |-> head, tail |-> tail]
NoBytes == Bytes(<<>>, 0)
\* the bytes of the file with content c of the catalogue
FileBytes(c) == IF c = 0 THEN NoBytes ELSE Bytes(ContentTable[c].first, c)
\* c[n:]
SliceFrom(c, n) == Bytes(SubSeq(c.head, n + 1, Len(c.head)), c.tail)

\* type templatefile: the text after the directive line and the layout.
templatefile(contents, layout) == [contents |-> contents, layout |-> layout]

\* the loop of newTemplateFile: the bytes up to and including the first
\* line terminator, or all of them
FirstLine(c) ==
  IF \E i \in DOMAIN c.head : c.head[i] = "\n"
    THEN SubSeq(c.head, 1, CHOOSE i \in DOMAIN c.head :
                              c.head[i] = "\n" /\ \A j \in 1..(i - 1) : c.head[j] # "\n")
    ELSE c.head

\* newTemplateFile: a first line of fewer than 10 bytes is no directive; when
\* the regular expression matches in the first line, layout is the capture
\* and the contents are the bytes after the first line
newTemplateFile(c) ==
  LET line == FirstLine(c)
      m    == FindSubmatch(line)
  IN  IF ByteLen(line) < 10 THEN templatefile(c, "")
      ELSE IF ~m.nil THEN templatefile(SliceFrom(c, Len(line)), Join(m.m1))
      ELSE templatefile(c, "")

\* newTemplateFile of the bytes of every content of the catalogue
ParsedFile == [c \in 0..Len(ContentTable) |-> newTemplateFile(FileBytes(c))]

\* -------------------------------------------------------- html/template
EmptyTree == [cid |-> 0, part |-> "empty"]
Tree(c, part) == [cid |-> c, part |-> part]
IsEmptyTree(t) == t.part = "empty"

\* the tokens of a text that are neither white space nor part of an action
\* or a comment
TextTokens == {"<html>"}
HasText(head) == \E i \in DOMAIN head : head[i] \in TextTokens
\* an action that calls extends, which is no function of any template
CallsExtends(head) ==
  \E i \in DOMAIN head : head[i] = "{{" /\ At(head, SkipSpaces(head, i + 1)) = "extends"

\* the trees parse.Parse builds for text c parsed as template `name`
Trees(name, c) ==
  IF c.tail = 0
    THEN (name :> (IF HasText(c.head) THEN Tree(0, "main") ELSE EmptyTree))
  ELSE LET ct == ContentTable[c.tail]
           main == name :> (IF ct.body = "none" /\ ~HasText(c.head)
                              THEN EmptyTree ELSE Tree(c.tail, "main"))
       IN  IF ct.defX = "none" THEN main
           ELSE main @@ ("X" :> (IF ct.defX = "empty" THEN EmptyTree ELSE Tree(c.tail, "X")))

ParseOk(c) == ~CallsExtends(c.head) /\ (c.tail = 0 \/ ContentTable[c.tail].ok)

\* (*Template).associate / AddParseTree for one tree
Associate(ns, k, t) ==
  IF k \in DOMAIN ns /\ IsEmptyTree(t) THEN ns
  ELSE [x \in (DOMAIN ns) \cup {k} |-> IF x = k THEN t ELSE ns[x]]

\* (*Template).Parse of text c into the template named `name` of namespace ns
Parse(ns, name, c) ==
  IF ~ParseOk(c) THEN [ns |-> ns, err |-> "parse"]
  ELSE LET ts == Trees(name, c)
           merged == [x \in (DOMAIN ns) \cup (DOMAIN ts) |->
                        IF x \in DOMAIN ts THEN Associate(ns, x, ts[x])[x] ELSE ns[x]]
       IN  [ns |-> merged, err |-> NoErr]

\* (*Template).Clone: an independent copy
Clone(ns) == ns

\* a *template.Template: its name and the namespace it belongs to
Template(name, ns, private) == [name |-> name, ns |-> ns, private |-> private]

\* (*Template).Lookup on the shared namespace
SharedLookup(shared, name) ==
  IF name \in DOMAIN shared THEN Template(name, shared, FALSE) ELSE Nil

\* (*Template).Execute: the engine is opaque; its output is determined by the
\* tree of the template, the block it renders and the data.
Execute(tmpl, ctx) ==
  IF tmpl.name \notin DOMAIN tmpl.ns
    THEN [err |-> "incomplete", out |-> <<>>]
    ELSE LET t == tmpl.ns[tmpl.name]
             callsX == ~IsEmptyTree(t) /\ t.cid # 0 /\ ContentTable[t.cid].body = "callsX"
         IN  IF callsX /\ "X" \notin DOMAIN tmpl.ns
               THEN [err |-> "exec", out |-> <<>>]
               ELSE [err |-> NoErr,
                     out |-> << [main |-> t,
                                 X    |-> IF callsX THEN tmpl.ns["X"] ELSE EmptyTree,
                                 ctx  |-> ctx] >>]

\* ------------------------------------------------------------ file system
\* disk[n] = [cid, mtime]; cid = 0: no such file.  Every file of the
\* directory carries the extension ".tmpl".
Absent == [cid |-> 0, mtime |-> 0]
Present(d) == {n \in Names : d[n].cid # 0}
FileExt == ".tmpl"

\* the elements of a path: what is left without separators and "."
PathElements(path) == SelectSeq(path, LAMBDA t : t \notin {"/", "."})
\* filepath.Join(dir, name) for a relative dir: the elements, one separator
\* between two of them
RECURSIVE JoinElements(_)
JoinElements(els) ==
  IF Len(els) <= 1 THEN els ELSE <<Head(els), "/">> \o JoinElements(Tail(els))
\* the path filepath.Walk(root, ...) reports for file n of the directory
WalkPath(root, n) == JoinElements(Append(PathElements(root), n))
\* the file a reported path leads to
FileOf(path) == path[Len(path)]
\* the walk started at root visits the files of the directory
WalksDirectory(root) == PathElements(root) = PathElements(RootDir)

\* a fingerprint over the paths alone
buildFileListPaths(d, root, extensions) ==
  LET slashed == TrimSuffix(root, <<"/">>) \o <<"/">>
      listed  == IF WalksDirectory(slashed) /\ FileExt \in extensions THEN Present(d) ELSE {}
  IN  [files |-> {WalkPath(slashed, n) : n \in listed},
       hash  |-> [nil |-> FALSE, listing |-> {<<WalkPath(slashed, n), 0>> : n \in listed}]]

\* buildFileList: root gets its trailing slash; the listed paths and the
\* hash over (path, mtime) in walk order.  sha256 is taken to be collision
\* free: the hash is the listing.  An unset root ("") walks "/", where
\* nothing carries a listed extension.
buildFileList(d, root, extensions) ==
  LET slashed == TrimSuffix(root, <<"/">>) \o <<"/">>
      listed  == IF WalksDirectory(slashed) /\ FileExt \in extensions THEN Present(d) ELSE {}
  IN  [files |-> {WalkPath(slashed, n) : n \in listed},
       hash  |-> [nil |-> FALSE,
                  listing |-> {<<WalkPath(slashed, n), d[n].mtime>> : n \in listed}]]

\* loadTemplateFiles: name -> templatefile for every listed path, the name
\* being the path without the prefix root
loadTemplateFiles(d, root, paths) ==
  LET name(path) == Join(TrimPrefix(path, root))
  IN  [nm \in {name(path) : path \in paths} |->
         ParsedFile[d[FileOf(CHOOSE path \in paths : name(path) = nm)].cid]]

\* the orders in which a range over a map with the keys S may visit them
Orders(S) == {o \in [1..Cardinality(S) -> S] : \A i, j \in DOMAIN o : o[i] = o[j] => i = j}

\* ---------------------------------------------------------- parseTemplates
\* first loop: every file without a layout is parsed into the shared
\* namespace, in map order o; the first error returns at once.
RECURSIVE ParseRoots(_, _, _, _)
ParseRoots(shared, files, o, i) ==
  IF i > Len(o) THEN [shared |-> shared, err |-> NoErr]
  ELSE IF o[i] \notin DOMAIN files \/ files[o[i]].layout # ""
    THEN ParseRoots(shared, files, o, i + 1)
  ELSE LET r == Parse(shared, o[i], files[o[i]].contents)
       IN  IF r.err # NoErr THEN [shared |-> r.ns, err |-> r.err]
           ELSE ParseRoots(r.ns, files, o, i + 1)

\* the walk up the layouts: templateFiles = [name, parent, grandparent, ...].
\* The loop runs while the parent exists.  It visits one file per round, so a
\* round beyond the number of files revisits a file and the loop never ends.
RECURSIVE WalkChain(_, _, _, _)
WalkChain(files, templateFiles, pname, rounds) ==
  IF pname \notin DOMAIN files THEN [chain |-> templateFiles, diverges |-> FALSE]
  ELSE IF rounds = 0 THEN [chain |-> templateFiles, diverges |-> TRUE]
  ELSE WalkChain(files, Append(templateFiles, pname), files[pname].layout, rounds - 1)

AncestorChain(files, name) ==
  WalkChain(files, <<name>>, files[name].layout, Cardinality(DOMAIN files))

\* the bodies parsed child first and outermost ancestor last
RECURSIVE ParseForward(_, _, _, _, _)
ParseForward(ns, name, files, templateFiles, j) ==
  IF j = 0 THEN [ns |-> ns, err |-> NoErr]
  ELSE LET r == Parse(ns, name, files[templateFiles[Len(templateFiles) - j + 1]].contents)
       IN  IF r.err # NoErr THEN r
           ELSE ParseForward(r.ns, name, files, templateFiles, j - 1)

\* the bodies of templateFiles parsed into tmpl, last element first
RECURSIVE ParseReverse(_, _, _, _, _)
ParseReverse(ns, name, files, templateFiles, j) ==
  IF j = 0 THEN [ns |-> ns, err |-> NoErr]
  ELSE LET r == Parse(ns, name, files[templateFiles[j]].contents)
       IN  IF r.err # NoErr THEN r
           ELSE ParseReverse(r.ns, name, files, templateFiles, j - 1)

\* one round of the second loop that refuses a layout that is no file
ComposeStrict(acc, files, name) ==
  LET put(t) == [x \in (DOMAIN acc.templates) \cup {name} |->
                   IF x = name THEN t ELSE acc.templates[x]]
  IN  IF files[name].layout = ""
        THEN [acc EXCEPT !.templates = put(SharedLookup(acc.shared, name))]
        ELSE LET private == Clone(acc.shared)
                 walk == AncestorChain(files, name)
                 r    == ParseReverse(private, name, files, walk.chain, Len(walk.chain))
             IN  IF walk.diverges
                   THEN [acc EXCEPT !.templates = put(Template(name, private, TRUE)),
                                    !.hung = TRUE]
                 ELSE IF files[walk.chain[Len(walk.chain)]].layout # ""
                   THEN [acc EXCEPT !.templates = put(Template(name, private, TRUE)),
                                    !.err = "parse"]
                   ELSE [acc EXCEPT !.templates = put(Template(name, r.ns, TRUE)),
                                    !.err = r.err]

\* one round of the second loop whose clone is taken from an empty
\* namespace, as a clone taken before the root files were parsed would be
ComposeEarlyClone(acc, files, name) ==
  LET put(t) == [x \in (DOMAIN acc.templates) \cup {name} |->
                   IF x = name THEN t ELSE acc.templates[x]]
  IN  IF files[name].layout = ""
        THEN [acc EXCEPT !.templates = put(SharedLookup(acc.shared, name))]
        ELSE LET private == [x \in {} |-> EmptyTree]
                 walk == AncestorChain(files, name)
                 r    == ParseReverse(private, name, files, walk.chain, Len(walk.chain))
             IN  IF walk.diverges
                   THEN [acc EXCEPT !.templates = put(Template(name, private, TRUE)),
                                    !.hung = TRUE]
                   ELSE [acc EXCEPT !.templates = put(Template(name, r.ns, TRUE)),
                                    !.err = r.err]

\* one round of the second loop that parses into the shared namespace itself
ComposeShared(acc, files, name) ==
  LET put(t) == [x \in (DOMAIN acc.templates) \cup {name} |->
                   IF x = name THEN t ELSE acc.templates[x]]
  IN  IF files[name].layout = ""
        THEN [acc EXCEPT !.templates = put(SharedLookup(acc.shared, name))]
        ELSE LET walk == AncestorChain(files, name)
                 r    == ParseReverse(acc.shared, name, files, walk.chain, Len(walk.chain))
             IN  IF walk.diverges
                   THEN [acc EXCEPT !.templates = put(Template(name, acc.shared, TRUE)),
                                    !.hung = TRUE]
                   ELSE [acc EXCEPT !.shared = r.ns,
                                    !.templates = put(Template(name, r.ns, TRUE)),
                                    !.err = r.err]

\* one round of the second loop, for file `name`.  acc = [shared, templates,
\* err, hung].
Compose(acc, files, name) ==
  LET put(t) == [x \in (DOMAIN acc.templates) \cup {name} |->
                   IF x = name THEN t ELSE acc.templates[x]]
  IN  IF files[name].layout = ""
        THEN [acc EXCEPT !.templates = put(SharedLookup(acc.shared, name))]
        ELSE LET private == Clone(acc.shared)
                 walk == AncestorChain(files, name)
                 r    == ParseReverse(private, name, files, walk.chain, Len(walk.chain))
             IN  IF walk.diverges
                   THEN [acc EXCEPT !.templates = put(Template(name, private, TRUE)),
                                    !.hung = TRUE]
                   ELSE [acc EXCEPT !.templates = put(Template(name, r.ns, TRUE)),
                                    !.err = r.err]

\* second loop in map order o; it stops at the first error and never leaves
\* a walk that does not end.
RECURSIVE ComposeAll(_, _, _, _)
ComposeAll(acc, files, o, i) ==
  IF i > Len(o) \/ acc.err # NoErr \/ acc.hung THEN acc
  ELSE IF o[i] \notin DOMAIN files THEN ComposeAll(acc, files, o, i + 1)
  ELSE ComposeAll(Compose(acc, files, o[i]), files, o, i + 1)

\* parseTemplates on engine fields e = [shared, sharedBackup, templates]:
\* the backup, the loop over the root files (first), then the loop over all
\* files (second)
parseTemplates(e, files, o1, o2) ==
  LET backup == IF e.sharedBackup = Nil THEN Clone(e.shared) ELSE e.sharedBackup
      second(done) == [shared |-> done.shared, sharedBackup |-> backup,
                       templates |-> done.templates, err |-> done.err, hung |-> done.hung]
      first(roots) ==
        IF roots.err # NoErr
          THEN [shared |-> roots.shared, sharedBackup |-> backup,
                templates |-> e.templates, err |-> roots.err, hung |-> FALSE]
          ELSE second(ComposeAll([shared |-> roots.shared, templates |-> e.templates,
                                  err |-> NoErr, hung |-> FALSE], files, o2, 1))
  IN  first(ParseRoots(e.shared, files, o1, 1))

\* ------------------------------------------------------------------- data
\* the values callers pass: strings, a number and a ready-made map
Str(s)  == [kind |-> "string", s |-> s]
Num(s)  == [kind |-> "int", s |-> s]
Scalars == {Str("Age"), Str("Size"), Num("6")}
MapOf(pairs) == [kind |-> "map", pairs |-> pairs]      \* pairs: a set of <<key, value>>
NilCtx == [kind |-> "nil"]

\* an assignment that keeps the value of a key already present
MapPutKeepFirst(pairs, key, v) ==
  IF \E p \in pairs : p[1] = key THEN pairs ELSE pairs \cup {<<key, v>>}

\* dataMap[key] = value on a map held as a set of pairs
MapPut(pairs, key, v) == {p \in pairs : p[1] # key} \cup {<<key, v>>}

\* the loop over the key/value arguments (0-based i of the code is i - 1)
RECURSIVE BuildDataMap(_, _, _)
BuildDataMap(data, i, pairs) ==
  IF i > Len(data) THEN [err |-> NoErr, pairs |-> pairs]
  ELSE IF data[i].kind # "string" THEN [err |-> "key", pairs |-> pairs]
  ELSE BuildDataMap(data, i + 2, MapPut(pairs, data[i].s, data[i + 1]))

\* --------------------------------------------------------------- the state
VARIABLES
  disk,             \* the template directory: name -> [cid, mtime]
  clock,            \* the file system clock
  ops,              \* file system modifications so far
  staticTemplates,  \* package variable staticTemplates: [set, files]
  shared,           \* x.shared
  sharedBackup,     \* x.sharedBackup (Nil until the first parseTemplates)
  templates,        \* x.templates
  autoReload,       \* x.autoReload
  root,             \* x.root
  extensions,       \* x.extensions
  fileTreeHash,     \* x.fileTreeHash
  phase,            \* "new", "parsed", "hung", "panicked"
  calls,            \* ExecuteTemplate calls so far
  built,            \* the files map of the last parseTemplates, whether it returned nil
                    \* and which function called it
  last,             \* the last call on the engine and what it returned
  callers,          \* the goroutines inside ExecuteTemplate: where each one is
                    \* and its local variables
  delims,           \* the action delimiters of x.shared: <<left, right>>
  input,            \* the bytes a caller hands to newTemplateFile
  parsed            \* what newTemplateFile returned for them (Nil: not called)

engine == <<shared, sharedBackup, templates, autoReload, root, extensions, fileTreeHash>>
vars == <<disk, clock, ops, staticTemplates, shared, sharedBackup, templates,
          autoReload, root, extensions, fileTreeHash, phase, calls, built, last, callers,
          delims, input, parsed>>

EmptyNs == [x \in {} |-> EmptyTree]
NoTemplates == [x \in {} |-> Nil]
NoStatic == [set |-> FALSE, files |-> [n \in {} |-> 0]]
Callers == 1..MaxCallers
Idle == [pc |-> "idle", name |-> "", paths |-> {},
         files |-> [n \in {} |-> templatefile(NoBytes, "")],
         hash |-> NoHash, todo |-> {}, err |-> NoErr, out |-> <<>>, sawHalf |-> FALSE]
NoCall == [op |-> "none", name |-> "", data |-> <<>>, err |-> NoErr, out |-> <<>>,
           reload |-> "none"]

\* a lookup that hands out a new, empty template for a name it does not know
LookupOrNew(tmpls, name) ==
  IF name \in DOMAIN tmpls THEN tmpls[name] ELSE Template(name, EmptyNs, FALSE)

\* Lookup
Lookup(tmpls, name) == IF name \in DOMAIN tmpls THEN tmpls[name] ELSE Nil

\* the same with the parity check placed before the switch on len(data)
ExecuteLookedParityFirst(tmpls, name, data) ==
  LET tmpl == Lookup(tmpls, name)
  IN  IF tmpl = Nil THEN [err |-> "lookup", out |-> <<>>]
      ELSE IF Len(data) % 2 # 0 THEN [err |-> "odd", out |-> <<>>]
      ELSE IF Len(data) = 0 THEN Execute(tmpl, NilCtx)
      ELSE LET m == BuildDataMap(data, 1, {})
           IN  IF m.err # NoErr THEN [err |-> m.err, out |-> <<>>]
               ELSE Execute(tmpl, MapOf(m.pairs))

\* ExecuteTemplate after the reload check: lookup, data binding, execution
ExecuteLooked(tmpls, name, data) ==
  LET tmpl == Lookup(tmpls, name)
  IN  IF tmpl = Nil THEN [err |-> "lookup", out |-> <<>>]
      ELSE IF Len(data) = 0 THEN Execute(tmpl, NilCtx)
      ELSE IF Len(data) = 1 THEN Execute(tmpl, data[1])
      ELSE IF Len(data) % 2 # 0 THEN [err |-> "odd", out |-> <<>>]
      ELSE LET m == BuildDataMap(data, 1, {})
           IN  IF m.err # NoErr THEN [err |-> m.err, out |-> <<>>]
               ELSE Execute(tmpl, MapOf(m.pairs))

\* a reload that stores the new fingerprint and leaves the rebuild out
reloadTemplatesStoreOnly(e, d, o1, o2) ==
  LET scan  == buildFileList(d, e.root, e.extensions)
      files == loadTemplateFiles(d, e.root, scan.files)
      same  == [shared |-> e.shared, sharedBackup |-> e.sharedBackup,
                templates |-> e.templates, fileTreeHash |-> e.fileTreeHash]
  IN  IF scan.hash = e.fileTreeHash
        THEN same @@ [err |-> NoErr, end |-> "return", rebuilt |-> FALSE, files |-> files]
        ELSE [same EXCEPT !.fileTreeHash = scan.hash]
             @@ [err |-> NoErr, end |-> "return", rebuilt |-> TRUE, files |-> files]

\* a reload that rebuilds without comparing the fingerprints
reloadTemplatesAlways(e, d, o1, o2) ==
  LET scan  == buildFileList(d, e.root, e.extensions)
      files == loadTemplateFiles(d, e.root, scan.files)
      r     == parseTemplates([shared |-> Clone(e.sharedBackup), sharedBackup |-> e.sharedBackup,
                               templates |-> NoTemplates], files, o1, o2)
      same  == [shared |-> e.shared, sharedBackup |-> e.sharedBackup,
                templates |-> e.templates, fileTreeHash |-> e.fileTreeHash]
  IN  IF e.sharedBackup = Nil
        THEN [same EXCEPT !.fileTreeHash = scan.hash]
             @@ [err |-> NoErr, end |-> "panic", rebuilt |-> FALSE, files |-> files]
      ELSE [shared |-> r.shared, sharedBackup |-> r.sharedBackup, templates |-> r.templates,
            fileTreeHash |-> scan.hash, err |-> r.err,
            end |-> IF r.hung THEN "hang" ELSE "return", rebuilt |-> TRUE, files |-> files]

\* a reload that builds on top of the previous build
reloadTemplatesOnPrevious(e, d, o1, o2) ==
  LET scan  == buildFileList(d, e.root, e.extensions)
      files == loadTemplateFiles(d, e.root, scan.files)
      r     == parseTemplates([shared |-> e.shared, sharedBackup |-> e.sharedBackup,
                               templates |-> e.templates], files, o1, o2)
      same  == [shared |-> e.shared, sharedBackup |-> e.sharedBackup,
                templates |-> e.templates, fileTreeHash |-> e.fileTreeHash]
  IN  IF scan.hash = e.fileTreeHash
        THEN same @@ [err |-> NoErr, end |-> "return", rebuilt |-> FALSE, files |-> files]
      ELSE IF e.sharedBackup = Nil
        THEN [same EXCEPT !.fileTreeHash = scan.hash]
             @@ [err |-> NoErr, end |-> "panic", rebuilt |-> FALSE, files |-> files]
      ELSE [shared |-> r.shared, sharedBackup |-> r.sharedBackup, templates |-> r.templates,
            fileTreeHash |-> scan.hash, err |-> r.err,
            end |-> IF r.hung THEN "hang" ELSE "return", rebuilt |-> TRUE, files |-> files]

\* reloadTemplates on the engine fields e, with the directory d: the scan
\* (load), the comparison of the fingerprints (decide), the rebuild from the
\* backup (rebuild) and what the engine holds after it (finish)
reloadTemplates(e, d, o1, o2) ==
  LET same == [shared |-> e.shared, sharedBackup |-> e.sharedBackup,
               templates |-> e.templates, fileTreeHash |-> e.fileTreeHash]
      rebuild(hash, files) ==
        parseTemplates([shared |-> Clone(e.sharedBackup), sharedBackup |-> e.sharedBackup,
                        templates |-> NoTemplates], files, o1, o2)
        @@ [fileTreeHash |-> hash, rebuilt |-> TRUE, files |-> files]
      finish(r) == [shared |-> r.shared, sharedBackup |-> r.sharedBackup,
                    templates |-> r.templates, fileTreeHash |-> r.fileTreeHash,
                    err |-> r.err, end |-> IF r.hung THEN "hang" ELSE "return",
                    rebuilt |-> TRUE, files |-> r.files]
      decide(hash, files) ==
        IF hash = e.fileTreeHash
          THEN same @@ [err |-> NoErr, end |-> "return", rebuilt |-> FALSE, files |-> files]
        ELSE IF e.sharedBackup = Nil
          THEN [same EXCEPT !.fileTreeHash = hash]
               @@ [err |-> NoErr, end |-> "panic", rebuilt |-> FALSE, files |-> files]
        ELSE finish(rebuild(hash, files))
      load(scan) == decide(scan.hash, loadTemplateFiles(d, e.root, scan.files))
  IN  load(buildFileList(d, e.root, e.extensions))

\* ---------------------------------------------------------------- actions
\* the directories a behaviour starts from
Dir(ca, cb, cc) ==
  [n \in Names |-> [cid |-> IF n = "a" THEN ca ELSE IF n = "b" THEN cb ELSE cc, mtime |-> 0]]
InitDisks == { Dir(1, 4, 5),      \* a three-level chain, every member defines X
               Dir(1, 4, 6),      \* the same, the child's definition of X is empty
               Dir(1, 4, 11),     \* two children of a
               Dir(2, 0, 0) }     \* one plain file

\* what the writer of the directory may store where
WriteChoices == { <<"a", 3>>, <<"a", 9>>, <<"b", 2>>, <<"b", 7>>, <<"b", 9>>, <<"b", 10>>,
                  <<"c", 8>> }

StaticBundle == [n \in {"a", "b"} |-> IF n = "a" THEN 1 ELSE 4]

\* New(): template.New("") with the default delimiters
DefaultDelims == <<"{{", "}}">>

InitEngine ==
  /\ disk \in InitDisks
  /\ clock = 0
  /\ ops = 0
  /\ staticTemplates = NoStatic
  /\ shared = EmptyNs
  /\ sharedBackup = Nil
  /\ templates = NoTemplates
  /\ autoReload = FALSE
  /\ root = <<>>
  /\ extensions = {}
  /\ fileTreeHash = NoHash
  /\ phase = "new"
  /\ calls = 0
  /\ built = [files |-> [n \in {} |-> templatefile(NoBytes, "")], ok |-> FALSE, via |-> "none"]
  /\ last = NoCall
  /\ callers = [p \in Callers |-> Idle]
  /\ delims = DefaultDelims
  /\ parsed = Nil

Init ==
  /\ InitEngine
  /\ input = NoBytes

Running == phase \in {"new", "parsed"}

\* ioutil.WriteFile on a file of the directory
WriteFile(n, c) ==
  /\ UNCHANGED <<callers, input, parsed, delims>>
  /\ ops < MaxOps
  /\ disk[n].cid # c
  /\ disk' = [disk EXCEPT ![n] = [cid |-> c, mtime |-> clock]]
  /\ ops' = ops + 1
  /\ UNCHANGED <<clock, staticTemplates, engine, phase, calls, built, last>>

\* os.Remove
RemoveFile(n) ==
  /\ UNCHANGED <<callers, input, parsed, delims>>
  /\ ops < MaxOps
  /\ disk[n].cid # 0
  /\ disk' = [disk EXCEPT ![n] = Absent]
  /\ ops' = ops + 1
  /\ UNCHANGED <<clock, staticTemplates, engine, phase, calls, built, last>>

\* time passes
Tick ==
  /\ UNCHANGED <<callers, input, parsed, delims>>
  /\ clock < MaxClock
  /\ clock' = clock + 1
  /\ UNCHANGED <<disk, ops, staticTemplates, engine, phase, calls, built, last>>

\* StaticTemplates(s), as the generated init() calls it
StaticTemplates(s) ==
  /\ UNCHANGED <<callers, input, parsed, delims>>
  /\ phase = "new"
  /\ ~staticTemplates.set
  /\ staticTemplates' = [set |-> TRUE, files |-> s]
  /\ UNCHANGED <<disk, clock, ops, engine, phase, calls, built, last>>

\* AutoReload(reload)
AutoReload(reload) ==
  /\ UNCHANGED <<callers, input, parsed, delims>>
  /\ Running
  /\ autoReload # reload
  /\ autoReload' = reload
  /\ UNCHANGED <<disk, clock, ops, staticTemplates, shared, sharedBackup, templates,
                 root, extensions, fileTreeHash, phase, calls, built, last>>

\* ParseDir(root, extensions), called once on a new engine
ParseDir(rt, exts) ==
  /\ UNCHANGED <<callers, input, parsed, delims>>
  /\ phase = "new"
  /\ LET scan  == buildFileList(disk, rt, IF exts = {} THEN {".html", ".tmpl"} ELSE exts)
         files == IF staticTemplates.set
                    THEN [n \in DOMAIN staticTemplates.files |->
                            ParsedFile[staticTemplates.files[n]]]
                    ELSE loadTemplateFiles(disk, rt, scan.files)
     IN  \E r \in { parseTemplates([shared |-> shared, sharedBackup |-> sharedBackup,
                                    templates |-> templates], files, o1, o2) :
                     o1 \in Orders(DOMAIN files), o2 \in Orders(DOMAIN files) } :
           /\ root' = rt
           /\ extensions' = IF exts = {} THEN {".html", ".tmpl"} ELSE exts
           /\ fileTreeHash' = IF staticTemplates.set THEN fileTreeHash ELSE scan.hash
           /\ shared' = r.shared
           /\ sharedBackup' = r.sharedBackup
           /\ templates' = r.templates
           /\ phase' = IF r.hung THEN "hung" ELSE "parsed"
           /\ built' = [files |-> files, ok |-> ~r.hung /\ r.err = NoErr, via |-> "ParseDir"]
           /\ last' = [NoCall EXCEPT !.op = "ParseDir",
                                     !.err = IF r.hung THEN "hang" ELSE r.err]
  /\ UNCHANGED <<disk, clock, ops, staticTemplates, autoReload, calls>>

\* ParseStatic(templates): json.Unmarshal into map[string]*templatefile.  The
\* fields of templatefile are unexported, so a JSON object decodes to the
\* zero templatefile; a JSON string (the bundler's format) is a type error.
ParseStatic(format, names) ==
  /\ UNCHANGED <<callers, input, parsed, delims>>
  /\ phase = "new"
  /\ \E r \in { parseTemplates([shared |-> shared, sharedBackup |-> sharedBackup,
                                  templates |-> templates],
                                 [n \in names |-> templatefile(NoBytes, "")], o1, o2) :
                   o1 \in Orders(names), o2 \in Orders(names) } :
           IF format = "strings"
             THEN /\ last' = [NoCall EXCEPT !.op = "ParseStatic", !.err = "json"]
                  /\ UNCHANGED <<shared, sharedBackup, templates, built>>
             ELSE /\ shared' = r.shared
                  /\ sharedBackup' = r.sharedBackup
                  /\ templates' = r.templates
                  /\ built' = [files |-> [n \in names |-> templatefile(NoBytes, "")],
                                ok |-> r.err = NoErr, via |-> "ParseStatic"]
                  /\ last' = [NoCall EXCEPT !.op = "ParseStatic", !.err = r.err]
  /\ phase' = "parsed"
  /\ UNCHANGED <<disk, clock, ops, staticTemplates, autoReload, root, extensions,
                 fileTreeHash, calls>>

\* ExecuteTemplate(wr, name, data...): the reload check, then the execution
ExecuteTemplate(name, data) ==
  /\ UNCHANGED <<callers, input, parsed, delims>>
  /\ Running
  /\ calls < MaxCalls
  /\ calls' = calls + 1
  /\ LET e == [shared |-> shared, sharedBackup |-> sharedBackup, templates |-> templates,
               root |-> root, extensions |-> extensions, fileTreeHash |-> fileTreeHash]
         check == staticTemplates.set = FALSE /\ autoReload
         keys  == DOMAIN loadTemplateFiles(disk, root,
                                           buildFileList(disk, root, extensions).files)
     IN  \E r \in IF check THEN { reloadTemplates(e, disk, o1, o2) :
                                    o1 \in Orders(keys), o2 \in Orders(keys) }
                   ELSE {[shared |-> shared, sharedBackup |-> sharedBackup,
                          templates |-> templates, fileTreeHash |-> fileTreeHash,
                          err |-> NoErr, end |-> "return", rebuilt |-> FALSE,
                          files |-> built.files]} :
         \E res \in { IF r.end # "return" THEN [err |-> r.end, out |-> <<>>]
                      ELSE IF r.err # NoErr THEN [err |-> r.err, out |-> <<>>]
                      ELSE ExecuteLooked(r.templates, name, data) } :
           /\ shared' = r.shared
           /\ sharedBackup' = r.sharedBackup
           /\ templates' = r.templates
           /\ fileTreeHash' = r.fileTreeHash
           /\ built' = IF r.rebuilt
                         THEN [files |-> r.files, ok |-> r.end = "return" /\ r.err = NoErr,
                               via |-> "reloadTemplates"]
                         ELSE built
           /\ phase' = IF r.end = "hang" THEN "hung"
                       ELSE IF r.end = "panic" THEN "panicked" ELSE phase
           /\ last' = [op |-> "ExecuteTemplate", name |-> name, data |-> data,
                       err |-> res.err, out |-> res.out,
                       reload |-> IF ~check THEN "skipped"
                                  ELSE IF r.rebuilt THEN "rebuilt" ELSE "same"]
  /\ UNCHANGED <<disk, clock, ops, staticTemplates, autoReload, root, extensions>>

CallNames == Names \cup {Ghost}

Next ==
  \/ \E w \in WriteChoices : WriteFile(w[1], w[2])
  \/ \E n \in Names : RemoveFile(n)
  \/ Tick
  \/ StaticTemplates(StaticBundle)
  \/ \E b \in BOOLEAN : AutoReload(b)
  \/ ParseDir(RootDir, {FileExt})
  \/ \E f \in {"strings", "objects"} : ParseStatic(f, {"a", "b"})
  \/ \E n \in CallNames : ExecuteTemplate(n, <<>>)

Spec == Init /\ [][Next]_vars

\* ------------------------------------------------- concurrent callers
\* ExecuteTemplate takes no lock, so the steps of several callers interleave
\* at every access to the engine or to the file system.  One action is one
\* such access (the three assignments of reloadTemplates before
\* parseTemplates are taken together, as are the reads of the listed files
\* and the first loop of parseTemplates).

\* a rebuild by another caller is under way and the compiled set is empty or
\* lacks a name that is both in the last built file set and in the new one
HalfRebuilt(p) ==
  \E q \in Callers \ {p} :
    /\ callers[q].pc \in {"roots", "compose"}
    /\ \/ (DOMAIN templates = {} /\ DOMAIN callers[q].files # {})
       \/ \E n \in (DOMAIN built.files) \cap (DOMAIN callers[q].files) : n \notin DOMAIN templates

\* entry of ExecuteTemplate: the test of staticTemplates and x.autoReload
Call(p, name) ==
  /\ UNCHANGED <<input, parsed, delims>>
  /\ phase = "parsed"
  /\ callers[p].pc = "idle"
  /\ calls < MaxCalls
  /\ calls' = calls + 1
  /\ callers' = [callers EXCEPT ![p] =
        [Idle EXCEPT !.name = name,
                     !.pc = IF staticTemplates.set = FALSE /\ autoReload THEN "scan" ELSE "lookup"]]
  /\ UNCHANGED <<disk, clock, ops, staticTemplates, engine, phase, built, last>>

\* reloadTemplates: the scan and the comparison with x.fileTreeHash
Scan(p) ==
  /\ UNCHANGED <<input, parsed, delims>>
  /\ callers[p].pc = "scan"
  /\ LET scan == buildFileList(disk, root, extensions)
     IN  callers' = [callers EXCEPT ![p] =
           IF scan.hash = fileTreeHash
             THEN [@ EXCEPT !.pc = "lookup"]
             ELSE [@ EXCEPT !.pc = "load", !.hash = scan.hash, !.paths = scan.files]]
  /\ UNCHANGED <<disk, clock, ops, staticTemplates, engine, phase, calls, built, last>>

\* ioutil.ReadFile fails on a listed path that leads to no file
ReadFails(d, paths) == \E path \in paths : d[FileOf(path)].cid = 0

\* a load that stores the new fingerprint before it reads the files
LoadStoringFirst(p) ==
  /\ UNCHANGED <<input, parsed, delims>>
  /\ callers[p].pc = "load"
  /\ fileTreeHash' = callers[p].hash
  /\ callers' = [callers EXCEPT ![p] =
        IF ReadFails(disk, callers[p].paths)
          THEN [@ EXCEPT !.pc = "idle", !.err = "read"]
          ELSE [@ EXCEPT !.pc = "store",
                         !.files = loadTemplateFiles(disk, root, callers[p].paths)]]
  /\ UNCHANGED <<disk, clock, ops, staticTemplates, shared, sharedBackup, templates,
                 autoReload, root, extensions, phase, calls, built, last>>

\* reloadTemplates: loadTemplateFiles reads the listed files as they are
\* now; an error of a read is returned before anything is stored
Load(p) ==
  /\ UNCHANGED <<input, parsed, delims>>
  /\ callers[p].pc = "load"
  /\ callers' = [callers EXCEPT ![p] =
        IF ReadFails(disk, callers[p].paths)
          THEN [@ EXCEPT !.pc = "idle", !.err = "read"]
          ELSE [@ EXCEPT !.pc = "store",
                         !.files = loadTemplateFiles(disk, root, callers[p].paths)]]
  /\ UNCHANGED <<disk, clock, ops, staticTemplates, engine, phase, calls, built, last>>

\* reloadTemplates: x.fileTreeHash = hash, x.shared = backup clone,
\* x.templates = empty map
Store(p) ==
  /\ UNCHANGED <<input, parsed, delims>>
  /\ callers[p].pc = "store"
  /\ fileTreeHash' = callers[p].hash
  /\ IF sharedBackup = Nil
       THEN /\ phase' = "panicked"
            /\ UNCHANGED <<shared, templates, callers>>
       ELSE /\ shared' = Clone(sharedBackup)
            /\ templates' = NoTemplates
            /\ callers' = [callers EXCEPT ![p].pc = "roots"]
            /\ UNCHANGED phase
  /\ UNCHANGED <<disk, clock, ops, staticTemplates, sharedBackup, autoReload, root,
                 extensions, calls, built, last>>

\* parseTemplates, first loop, on the x.shared of the moment
Roots(p) ==
  /\ UNCHANGED <<input, parsed, delims>>
  /\ callers[p].pc = "roots"
  /\ \E r \in {ParseRoots(shared, callers[p].files, o, 1) : o \in Orders(DOMAIN callers[p].files)} :
       /\ shared' = r.shared
       /\ callers' = [callers EXCEPT ![p] =
             IF r.err # NoErr THEN [@ EXCEPT !.pc = "idle", !.err = r.err]
             ELSE IF DOMAIN callers[p].files = {} THEN [@ EXCEPT !.pc = "lookup"]
             ELSE [@ EXCEPT !.pc = "compose", !.todo = DOMAIN callers[p].files]]
       /\ built' = IF r.err = NoErr /\ DOMAIN callers[p].files = {}
                     THEN [files |-> callers[p].files, ok |-> TRUE, via |-> "reloadTemplates"]
                     ELSE built
  /\ UNCHANGED <<disk, clock, ops, staticTemplates, sharedBackup, templates, autoReload,
                 root, extensions, fileTreeHash, phase, calls, last>>

\* parseTemplates, one round of the second loop, on the x.shared and the
\* x.templates of the moment
ComposeOne(p, n) ==
  /\ UNCHANGED <<input, parsed, delims>>
  /\ callers[p].pc = "compose"
  /\ n \in callers[p].todo
  /\ \E acc \in { Compose([shared |-> shared, templates |-> templates,
                            err |-> NoErr, hung |-> FALSE], callers[p].files, n) } :
       LET rest == callers[p].todo \ {n}
       IN  /\ templates' = acc.templates
           /\ callers' = [callers EXCEPT ![p] =
                 IF acc.hung THEN [@ EXCEPT !.pc = "hung"]
                 ELSE IF acc.err # NoErr THEN [@ EXCEPT !.pc = "idle", !.err = acc.err]
                 ELSE [@ EXCEPT !.todo = rest,
                                !.pc = IF rest = {} THEN "lookup" ELSE "compose"]]
           /\ built' = IF ~acc.hung /\ acc.err = NoErr /\ rest = {}
                         THEN [files |-> callers[p].files, ok |-> TRUE,
                               via |-> "reloadTemplates"]
                         ELSE built
  /\ UNCHANGED <<disk, clock, ops, staticTemplates, shared, sharedBackup, autoReload,
                 root, extensions, fileTreeHash, phase, calls, last>>

\* Lookup and execution on the x.templates of the moment
LookupExecute(p) ==
  /\ UNCHANGED <<input, parsed, delims>>
  /\ callers[p].pc = "lookup"
  /\ \E res \in {ExecuteLooked(templates, callers[p].name, <<>>)} :
       callers' = [callers EXCEPT ![p] =
         [@ EXCEPT !.pc = "idle", !.err = res.err, !.out = res.out,
                   !.sawHalf = HalfRebuilt(p)]]
  /\ UNCHANGED <<disk, clock, ops, staticTemplates, engine, phase, calls, built, last>>

\* A read or write of the map x.templates while another goroutine is in the
\* loop that writes it is a data race; besides the interleavings above the
\* runtime may stop the process ("concurrent map read and map write").
ConcurrentMapFault(p) ==
  /\ UNCHANGED <<input, parsed, delims>>
  /\ callers[p].pc \in {"lookup", "compose"}
  /\ \E q \in Callers \ {p} : callers[q].pc = "compose"
  /\ phase' = "panicked"
  /\ callers' = [q \in Callers |-> [callers[q] EXCEPT !.pc = "dead"]]
  /\ UNCHANGED <<disk, clock, ops, staticTemplates, engine, calls, built, last>>

InitConc ==
  /\ Init
  /\ disk \in {Dir(1, 4, 11), Dir(2, 0, 0)}

NextConc ==
  \/ \E w \in {<<"a", 3>>, <<"b", 2>>} : WriteFile(w[1], w[2])
  \/ Tick
  \/ AutoReload(TRUE)
  \/ ParseDir(RootDir, {FileExt})
  \/ \E p \in Callers, n \in {"a", "c"} : Call(p, n)
  \/ \E p \in Callers : Scan(p)
  \/ \E p \in Callers : Load(p)
  \/ \E p \in Callers : Store(p)
  \/ \E p \in Callers : Roots(p)
  \/ \E p \in Callers, n \in Names : ComposeOne(p, n)
  \/ \E p \in Callers : LookupExecute(p)
  \/ \E p \in Callers : ConcurrentMapFault(p)

SpecConc == InitConc /\ [][NextConc]_vars

\* The data arguments: every list of up to MaxArgs scalars, and a map alone.
ArgLists ==
  UNION {[1..k -> Scalars] : k \in 0..MaxArgs}
    \cup {<<MapOf({<<"Age", Num("6")>>, <<"Size", Str("Size")>>})>>}

\* An engine over one directory that is never modified, called with every
\* shape of data.
InitArgs ==
  /\ Init
  /\ disk = Dir(1, 4, 5)

NextArgs ==
  \/ ParseDir(RootDir, {FileExt})
  \/ \E n \in CallNames, d \in ArgLists : ExecuteTemplate(n, d)

SpecArgs == InitArgs /\ [][NextArgs]_vars

\* ------------------------------------------------- newTemplateFile alone
\* Delims(left, right), called on the new engine as the tests do
Delims(left, right) ==
  /\ phase = "new"
  /\ parsed = Nil
  /\ delims # <<left, right>>
  /\ delims' = <<left, right>>
  /\ UNCHANGED <<disk, clock, ops, staticTemplates, engine, phase, calls, built, last,
                 callers, input, parsed>>

\* newTemplateFile(input)
NewTemplateFile ==
  /\ parsed = Nil
  /\ parsed' = [tf |-> newTemplateFile(input), err |-> NoErr]
  /\ UNCHANGED <<disk, clock, ops, staticTemplates, engine, phase, calls, built, last,
                 callers, input, delims>>

\* The first lines handed to newTemplateFile: a directive written with a
\* pair of delimiters, bare or inside a comment, with s1, s2 and s3 spaces
\* around the keyword and the quoted path, with or without a line
\* terminator; and lines that hold no directive.
Spaces(k) == [i \in 1..k |-> " "]
DirectiveLine(pair, comment, s1, s2, s3, path, term) ==
  <<pair[1]>> \o (IF comment THEN <<"/*">> ELSE <<>>) \o Spaces(s1) \o <<"extends">>
    \o Spaces(s2) \o <<"\"">> \o path \o <<"\"">> \o Spaces(s3)
    \o (IF comment THEN <<"*/">> ELSE <<>>) \o <<pair[2]>> \o term
DelimPairs == {DefaultDelims, <<"<%", "%>">>}
Paths == {<<"a">>, <<"dir", "/", "file">>, <<"dir", "\\", "file">>}
Terms == {<<>>, <<"\n">>}
Directives ==
  { [line |-> DirectiveLine(pair, comment, s1, s2, s3, path, term), path |-> path,
     pair |-> pair, comment |-> comment] :
      pair \in DelimPairs, comment \in BOOLEAN, s1 \in 0..MaxSpaces, s2 \in 1..MaxSpaces,
      s3 \in 0..MaxSpaces, path \in Paths, term \in Terms }
OtherLines == {<<>>, <<"<html>">>, HtmlLine, <<"\n">>}
\* what follows a first line that ends with a line terminator
Rests == {<<>>, HtmlLine, ExtendsLine("a")}
Inputs ==
  UNION { { Bytes(first \o rest, 0) :
              rest \in IF At(first, Len(first)) = "\n" THEN Rests ELSE {<<>>} } :
          first \in {d.line : d \in Directives} \cup OtherLines }

InitFile ==
  /\ InitEngine
  /\ disk = Dir(2, 0, 0)
  /\ input \in Inputs

NextFile ==
  \/ \E pair \in DelimPairs : Delims(pair[1], pair[2])
  \/ NewTemplateFile

SpecFile == InitFile /\ [][NextFile]_vars

\* ------------------------------------------------- the spellings of root
\* the ways a caller may write the directory of the templates
RootSpellings == {RootDir, <<"examples">>, <<".", "/", "examples", "/">>}

\* An engine loaded with any spelling of the directory, then called.
InitRoot ==
  /\ Init
  /\ disk \in {Dir(1, 4, 5), Dir(2, 0, 0)}

NextRoot ==
  \/ \E rt \in RootSpellings : ParseDir(rt, {FileExt})
  \/ AutoReload(TRUE)
  \/ WriteFile("a", 3)
  \/ Tick
  \/ \E n \in CallNames \cup {"/a", "examples/a"} : ExecuteTemplate(n, <<>>)

SpecRoot == InitRoot /\ [][NextRoot]_vars

\* ------------------------------------------- several files without layout
\* An engine over a directory whose writer may store a second file without
\* layout: a plain one, or a layout that defines block X as file a does.
RootWrites == {<<"b", 2>>, <<"b", 13>>}

InitOrder ==
  /\ Init
  /\ disk \in {Dir(1, 4, 5), Dir(1, 4, 11)}

NextOrder ==
  \/ \E w \in RootWrites : WriteFile(w[1], w[2])
  \/ Tick
  \/ AutoReload(TRUE)
  \/ ParseDir(RootDir, {FileExt})
  \/ \E n \in Names : ExecuteTemplate(n, <<>>)

SpecOrder == InitOrder /\ [][NextOrder]_vars

\* ------------------------------------- the directory changes during a call
\* os.Remove of a file that caller p has listed and not yet read
RemoveListed(p, n) ==
  /\ UNCHANGED <<input, parsed, delims>>
  /\ callers[p].pc = "load"
  /\ WalkPath(root, n) \in callers[p].paths
  /\ disk[n].cid # 0
  /\ disk' = [disk EXCEPT ![n] = Absent]
  /\ UNCHANGED <<clock, ops, staticTemplates, engine, phase, calls, built, last, callers>>

\* One caller at a time; the directory is written between the calls and
\* files are removed while a call is between its scan and its reads.
InitRead ==
  /\ Init
  /\ disk \in {Dir(1, 4, 5), Dir(2, 0, 0)}

NextRead ==
  \/ \E w \in {<<"a", 3>>, <<"b", 2>>} : WriteFile(w[1], w[2])
  \/ \E n \in Names : RemoveListed(1, n)
  \/ Tick
  \/ AutoReload(TRUE)
  \/ ParseDir(RootDir, {FileExt})
  \/ \E n \in {"a", "c"} : Call(1, n)
  \/ Scan(1)
  \/ Load(1)
  \/ Store(1)
  \/ Roots(1)
  \/ \E n \in Names : ComposeOne(1, n)
  \/ LookupExecute(1)

SpecRead == InitRead /\ [][NextRead]_vars

TypeOK ==
  /\ clock \in 0..MaxClock
  /\ ops \in 0..MaxOps
  /\ calls \in 0..MaxCalls
  /\ phase \in {"new", "parsed", "hung", "panicked"}
  /\ autoReload \in BOOLEAN

\* ================================================================= claims
\* the chain of an extending file of the last build, when every member is in
\* the file set (the walk ended at a file without layout)
Extending(files) == {n \in DOMAIN files : files[n].layout # ""}
ChainComplete(files, n) ==
  LET w == AncestorChain(files, n)
  IN  ~w.diverges /\ files[w.chain[Len(w.chain)]].layout = ""
\* how the text of a templatefile defines block X
DefOfX(tf) == IF tf.contents.tail = 0 THEN "none" ELSE ContentTable[tf.contents.tail].defX
\* positions of the chain (1 = the child) whose text defines X in one of the ways `hows`
Definers(files, chain, hows) == {i \in DOMAIN chain : DefOfX(files[chain[i]]) \in hows}
Closest(S) == CHOOSE i \in S : \A k \in S : i <= k

\* C1 (as stated): after a build that returned nil, for every extending
\* template whose chain is complete and for block X defined by members of
\* the chain, the template compiled for the child holds the definition of X
\* of the defining member closest to the child.
C1_ClosestDefinitionWins ==
  built.ok =>
    \A n \in Extending(built.files) :
      ChainComplete(built.files, n) =>
        LET chain == AncestorChain(built.files, n).chain
            defs  == Definers(built.files, chain, {"text", "empty"})
        IN  defs # {} =>
              /\ n \in DOMAIN templates
              /\ "X" \in DOMAIN templates[n].ns
              /\ templates[n].ns["X"] =
                   Trees(n, built.files[chain[Closest(defs)]].contents)["X"]

\* C1 (amended): the same for the closest member that defines X with a
\* non-empty body; a definition whose body is empty does not replace the
\* definition of an ancestor.
C1_ClosestNonEmptyDefinitionWins ==
  built.ok =>
    \A n \in Extending(built.files) :
      ChainComplete(built.files, n) =>
        LET chain == AncestorChain(built.files, n).chain
            defs  == Definers(built.files, chain, {"text"})
        IN  defs # {} =>
              /\ n \in DOMAIN templates
              /\ "X" \in DOMAIN templates[n].ns
              /\ templates[n].ns["X"] =
                   Tree(built.files[chain[Closest(defs)]].contents.tail, "X")

\* C1 witness: a three-level chain in which all three members define X was
\* built, and the child's own definition is the one compiled.
C1_Witness ==
     /\ built.ok
     /\ "c" \in Extending(built.files)
     /\ ChainComplete(built.files, "c")
     /\ Len(AncestorChain(built.files, "c").chain) = 3
     /\ Cardinality(Definers(built.files, AncestorChain(built.files, "c").chain, {"text"})) = 3
     /\ templates["c"].ns["X"] = Tree(built.files["c"].contents.tail, "X")

\* ---------------------------------------------------------------- C2
\* a step of ExecuteTemplate
ExecuteStep == calls' = calls + 1
\* the engine was loaded by ParseDir from the directory
FromDirectory == phase = "parsed" /\ ~staticTemplates.set /\ root = RootDir
\* the files of the directory as a scan would load them now
FilesNow == loadTemplateFiles(disk, RootDir, {WalkPath(RootDir, n) : n \in Present(disk)})
\* the directory was modified since its files were last loaded
Modified == FilesNow # built.files
\* what a new engine builds from the directory as it is now
FreshBuilds ==
  { parseTemplates([shared |-> EmptyNs, sharedBackup |-> Nil, templates |-> NoTemplates],
                   FilesNow, o1, o2) : o1 \in Orders(DOMAIN FilesNow), o2 \in Orders(DOMAIN FilesNow) }
BuildsCleanly == \A f \in FreshBuilds : f.err = NoErr /\ ~f.hung
FreshResults(name, data) == { ExecuteLooked(f.templates, name, data) : f \in FreshBuilds }
\* the text of a plain file without layout is what its template renders
PlainOutput(name, res) ==
  (name \in Present(disk) /\ ParsedFile[disk[name].cid].layout = ""
     /\ ContentTable[disk[name].cid].body = "plain")
    => (res.err = NoErr /\ res.out[1].main = Tree(disk[name].cid, "main"))
ServesDirectory(res, name, data) ==
  res \in FreshResults(name, data) /\ PlainOutput(name, res)
\* the (path, modification time) pairs of the directory differ from those of
\* the stored fingerprint
FingerprintChanged ==
  \/ fileTreeHash.nil
  \/ fileTreeHash.listing # {<<WalkPath(RootDir, n), disk[n].mtime>> : n \in Present(disk)}

\* C2 (as stated): after ParseDir on a directory whose files were then
\* modified (a file rewritten, added or removed; the modified directory
\* holds valid templates), ExecuteTemplate with auto-reload on returns the
\* output of the new content, and with auto-reload off leaves the compiled
\* set alone and returns the output of the last build.
C2_ReloadOnServesNewOffServesOld ==
  [][ (ExecuteStep /\ FromDirectory /\ Modified /\ BuildsCleanly) =>
        IF autoReload
          THEN ServesDirectory([err |-> last'.err, out |-> last'.out], last'.name, last'.data)
          ELSE /\ templates' = templates
               /\ [err |-> last'.err, out |-> last'.out]
                    = ExecuteLooked(templates, last'.name, last'.data) ]_vars

\* C2 (amended): the new content is served when the modification changed
\* the fingerprint, that is the (path, modification time) pairs of the
\* directory; a rewrite that leaves the modification time as scanned is not
\* noticed.  With auto-reload off nothing changes.
C2_ReloadOnServesNewWhenFingerprintChanged ==
  [][ (ExecuteStep /\ FromDirectory /\ Modified /\ BuildsCleanly) =>
        IF autoReload
          THEN FingerprintChanged =>
                 ServesDirectory([err |-> last'.err, out |-> last'.out], last'.name, last'.data)
          ELSE /\ templates' = templates
               /\ [err |-> last'.err, out |-> last'.out]
                    = ExecuteLooked(templates, last'.name, last'.data) ]_vars

\* C2 witness: file a was rewritten, the next ExecuteTemplate rebuilt the set
\* and rendered the new text of a.
C2_Witness ==
  /\ last.op = "ExecuteTemplate" /\ last.reload = "rebuilt" /\ last.err = NoErr
  /\ last.name = "a" /\ disk["a"].cid = 3 /\ disk["a"].mtime = 1
  /\ last.out[1].main = Tree(3, "main")

\* ---------------------------------------------------------------- C3
\* every template of the set tmpls is in the set tmpls2 and renders the same
StillServes(tmpls, tmpls2) ==
  \A n \in DOMAIN tmpls :
    /\ n \in DOMAIN tmpls2
    /\ Execute(tmpls2[n], NilCtx) = Execute(tmpls[n], NilCtx)

\* C3: when the rebuild triggered by ExecuteTemplate fails with a parse
\* error, the error is returned and every template that was executable
\* before the call is still in the compiled set and renders as before.
C3_FailedReloadKeepsLastGoodSet ==
  [][ (ExecuteStep /\ last'.err = "parse") => StillServes(templates, templates') ]_vars

\* ---------------------------------------------------------------- C4
InRebuild(p) == callers[p].pc \in {"store", "roots", "compose"}

\* C4: with several callers and auto-reload on, at most one rebuild is in
\* flight at a time and no caller's Lookup observes a half-rebuilt compiled
\* set.
C4_RebuildsSerialized ==
  /\ Cardinality({p \in Callers : InRebuild(p)}) <= 1
  /\ \A p \in Callers : ~callers[p].sawHalf
  /\ phase # "panicked"

\* ---------------------------------------------------------------- C5
\* C5: no build walks a layout chain forever: a chain that cycles back on
\* itself is rejected with an error, so neither ParseDir nor a reload hangs.
C5_CyclicChainRejected == phase # "hung"

\* ---------------------------------------------------------------- C6
\* the call got past the reload check (it was skipped or returned nil)
ReachedLookup == last.op = "ExecuteTemplate" /\ last.err \notin {"parse", "hang", "panic"}

KeyPositions(d) == {i \in DOMAIN d : i % 2 = 1}
IsPairList(d) ==
  Len(d) > 1 /\ Len(d) % 2 = 0 /\ \A i \in KeyPositions(d) : d[i].kind = "string"
\* the map m with m[ki] = vi, the last occurrence of a key deciding
PairsAsMap(d) ==
  {<<d[i].s, d[i + 1]>> :
     i \in {i \in KeyPositions(d) : \A j \in KeyPositions(d) : j > i => d[j].s # d[i].s}}

\* C7: a call with key/value pairs returns what the call with the single
\* argument m returns, m being the string-keyed map of the pairs.
C7_PairsEqualMap ==
  (ReachedLookup /\ IsPairList(last.data)) =>
     [err |-> last.err, out |-> last.out]
       = ExecuteLooked(templates, last.name, <<MapOf(PairsAsMap(last.data))>>)

\* C7 witness: a call with a repeated key rendered with the later value.
C7_Witness ==
  /\ last.op = "ExecuteTemplate" /\ last.name = "c" /\ last.err = NoErr
  /\ last.data = <<Str("Age"), Num("6"), Str("Age"), Str("Size")>>
  /\ last.out[1].ctx = MapOf({<<"Age", Str("Size")>>})

\* ---------------------------------------------------------------- C8
ShapeError == last.err \in {"odd", "key"}

\* C8: for a name in the compiled set and more than one argument the call
\* fails with an argument error exactly when the number of arguments is odd
\* or some key position holds a non-string, and then nothing is written;
\* with no argument nil is bound, with one argument the value itself, and
\* neither is an argument error.
C8_ArgumentShapeErrors ==
  (ReachedLookup /\ last.name \in DOMAIN templates) =>
     /\ Len(last.data) > 1 =>
          /\ ShapeError <=> (Len(last.data) % 2 = 1
                               \/ \E i \in KeyPositions(last.data) : last.data[i].kind # "string")
          /\ ShapeError => last.out = <<>>
     /\ Len(last.data) = 0 => (~ShapeError /\ (last.err = NoErr => last.out[1].ctx = NilCtx))
     /\ Len(last.data) = 1 =>
          (~ShapeError /\ (last.err = NoErr => last.out[1].ctx = last.data[1]))

\* C8 witness: an odd number of arguments for a compiled template was
\* refused without output.
C8_Witness ==
  /\ last.op = "ExecuteTemplate" /\ last.name = "c" /\ "c" \in DOMAIN templates
  /\ last.data = <<Str("Age"), Num("6"), Str("Size")>>
  /\ last.err = "odd" /\ last.out = <<>>

\* ---------------------------------------------------------------- C9
\* a bundle is in effect: ParseDir consumed the StaticTemplates bundle, or
\* the templates came through ParseStatic
StaticInEffect ==
  \/ (staticTemplates.set /\ built.via = "ParseDir")
  \/ built.via = "ParseStatic"

\* C9: with a bundle in effect ExecuteTemplate never rescans the directory
\* and leaves the compiled set, the shared namespace and the fingerprint
\* alone, whatever the auto-reload flag.
C9_StaticSourceNeverReloads ==
  [][ (ExecuteStep /\ StaticInEffect) =>
        /\ last'.reload = "skipped"
        /\ UNCHANGED <<templates, shared, fileTreeHash>> ]_vars

\* ---------------------------------------------------------------- C10
\* the contents a template compiled for n may draw its trees from: the files
\* without layout and the members of n's own chain
OwnSources(files, n) ==
  {files[r].contents.tail : r \in (DOMAIN files) \ Extending(files)}
    \cup {files[AncestorChain(files, n).chain[i]].contents.tail :
            i \in DOMAIN AncestorChain(files, n).chain}

\* the builds of the file set without the extending files outside n's chain
BuildsWithout(files, n) ==
  LET chain == AncestorChain(files, n).chain
      keep  == ((DOMAIN files) \ Extending(files)) \cup {chain[i] : i \in DOMAIN chain}
  IN  { parseTemplates([shared |-> EmptyNs, sharedBackup |-> Nil, templates |-> NoTemplates],
                       [x \in keep |-> files[x]], o, o) : o \in Orders(keep) }

\* C10: whatever the order of compilation, the template compiled for an
\* extending file holds no definition parsed for a file outside its own
\* chain, the shared namespace holds none parsed for an extending file, and
\* the compiled template renders as in a build without the other extending
\* files that are not in its chain.
C10_SiblingIsolation ==
  /\ \A k \in DOMAIN shared :
       IsEmptyTree(shared[k]) \/
         shared[k].cid \in {built.files[r].contents.tail : r \in (DOMAIN built.files) \ Extending(built.files)}
  /\ \A n \in (DOMAIN templates) \cap Extending(built.files) :
       \A k \in DOMAIN templates[n].ns :
         IsEmptyTree(templates[n].ns[k]) \/ templates[n].ns[k].cid \in OwnSources(built.files, n)
  /\ built.ok =>
       \A n \in Extending(built.files) :
         Execute(templates[n], NilCtx) \in
           { Execute(f.templates[n], NilCtx) : f \in BuildsWithout(built.files, n) }

\* C10 witness: b and c both extend a, only b defines X, and the template
\* compiled for c renders a's X.
C10_Witness ==
  /\ built.ok
  /\ {"b", "c"} \subseteq Extending(built.files)
  /\ built.files["b"].layout = "a" /\ built.files["c"].layout = "a"
  /\ DefOfX(built.files["b"]) = "text" /\ DefOfX(built.files["c"]) = "none"
  /\ templates["c"].ns["X"] = Tree(built.files["a"].contents.tail, "X")
  /\ templates["b"].ns["X"] = Tree(built.files["b"].contents.tail, "X")

\* ---------------------------------------------------------------- C11
\* a step that ran parseTemplates: ParseDir, or ExecuteTemplate with a rebuild
BuildStep ==
  \/ (phase = "new" /\ last'.op = "ParseDir")
  \/ (ExecuteStep /\ last'.reload = "rebuilt")
\* some file without layout does not parse
RootFails(files) ==
  \E n \in (DOMAIN files) \ Extending(files) : ~ParseOk(files[n].contents)

\* C11: a build over a file set with a root file that does not parse returns
\* the parse error and leaves as shared namespace the pristine backup or the
\* shared namespace of before the build: no root definition registered by
\* the failed pass stays in it.
C11_RootErrorLeavesNoPartialNamespace ==
  [][ (BuildStep /\ RootFails(built'.files)) =>
        /\ last'.err = "parse"
        /\ (shared' = sharedBackup' \/ shared' = shared) ]_vars

\* ---------------------------------------------------------------- C12
\* no walk up the layouts of the file set runs forever
NoCycle(files) == \A n \in DOMAIN files : ~AncestorChain(files, n).diverges
\* every body of n's chain parses
ChainParses(files, n) ==
  \A i \in DOMAIN AncestorChain(files, n).chain :
    ParseOk(files[AncestorChain(files, n).chain[i]].contents)

\* C12: in a build whose root files all parse, a template of which some
\* chain member does not parse is the only one not compiled: every file
\* whose own chain parses has its complete template in the compiled set
\* after the pass, and a file whose chain fails has no entry in it.
C12_ChildErrorIsLocal ==
  [][ (BuildStep /\ ~RootFails(built'.files) /\ NoCycle(built'.files)) =>
        \A n \in DOMAIN built'.files :
          IF ChainParses(built'.files, n)
            THEN n \in DOMAIN templates' /\ n \in DOMAIN templates'[n].ns
            ELSE n \notin DOMAIN templates' ]_vars

\* ---------------------------------------------------------------- C13
\* some file holds a text other than the one loaded for it although its
\* (path, modification time) pair is the one of the stored fingerprint: it
\* was rewritten without a change of its modification time
StaleContent ==
  \E n \in Present(disk) \cap DOMAIN built.files :
    /\ built.files[n] # ParsedFile[disk[n].cid]
    /\ <<WalkPath(RootDir, n), disk[n].mtime>> \in fileTreeHash.listing

ReloadCheckFindsSame ==
  /\ ~staticTemplates.set /\ autoReload
  /\ buildFileList(disk, root, extensions).hash = fileTreeHash

\* C14: an ExecuteTemplate call whose reload check finds the stored
\* fingerprint loads no file and leaves the shared namespace, the backup,
\* the compiled set and the fingerprint as they are; the call is served
\* from the templates compiled before.
C14_SameFingerprintNoWork ==
  [][ (ExecuteStep /\ ReloadCheckFindsSame) =>
        /\ last'.reload = "same"
        /\ UNCHANGED <<shared, sharedBackup, templates, fileTreeHash, built>>
        /\ [err |-> last'.err, out |-> last'.out]
             = ExecuteLooked(templates, last'.name, last'.data) ]_vars

\* C14 witness: file a was rewritten within the modification time it was
\* scanned with; the reload check found the same fingerprint and the call
\* rendered the text compiled before.
C14_Witness ==
  /\ last.op = "ExecuteTemplate" /\ last.reload = "same" /\ last.err = NoErr
  /\ autoReload /\ last.name = "a" /\ disk["a"].cid = 3
  /\ last.out[1].main = Tree(2, "main")

\* ---------------------------------------------------------------- C15
\* the step is an ExecuteTemplate on an engine loaded by ParseDir whose reload
\* rebuilt and returned nil
ReloadSucceeded == FromDirectory /\ ExecuteStep /\ last'.reload = "rebuilt" /\ built'.ok

\* C15: after a reload that succeeded the shared namespace and the compiled
\* set are those a new engine builds with one ParseDir of the directory as
\* it is; the compiled set has exactly the names of the files present, and
\* the pristine backup never holds a definition.
C15_ReloadEqualsFreshBuild ==
  [][ /\ ReloadSucceeded =>
           /\ \E f \in FreshBuilds : f.shared = shared' /\ f.templates = templates'
           /\ DOMAIN templates' = Present(disk)
           /\ \A k \in DOMAIN shared' :
                IsEmptyTree(shared'[k]) \/ \E n \in Present(disk) : disk[n].cid = shared'[k].cid
      /\ sharedBackup' \in {Nil, EmptyNs} ]_vars

\* C15 witness: file c of the directory a, b, c was removed and the reload
\* left a compiled set without c.
C15_Witness ==
  /\ FromDirectory /\ last.op = "ExecuteTemplate" /\ last.reload = "rebuilt" /\ built.ok
  /\ disk["b"].cid = 4 /\ disk["c"].cid = 0
  /\ DOMAIN templates = {"a", "b"}

\* ---------------------------------------------------------------- C16
\* filepath.ToSlash as the claim reads it: every backslash a forward slash
ToSlash(path) == [i \in DOMAIN path |-> IF path[i] = "\\" THEN "/" ELSE path[i]]
\* the directives of the spelling `comment` and the delimiters `pair` that
\* the line is
DirectivesAt(line, pair, comment) ==
  {d \in Directives : d.line = line /\ d.pair = pair /\ d.comment = comment}

\* C16: newTemplateFile never returns an error; when the first line of the
\* bytes is the directive {{ extends "path" }}, layout is the path with
\* forward slashes and the contents are the bytes after the first line; when
\* the first line holds no directive, layout is empty and the contents are
\* the bytes as given, also when a later line holds a directive.
C16_FirstLineDecides ==
  parsed # Nil =>
    LET line == FirstLine(input)
    IN  /\ parsed.err = NoErr
        /\ \A d \in DirectivesAt(line, DefaultDelims, FALSE) :
             /\ parsed.tf.layout = Join(ToSlash(d.path))
             /\ parsed.tf.contents = SliceFrom(input, Len(line))
        /\ line \in OtherLines =>
             (parsed.tf.layout = "" /\ parsed.tf.contents = input)

\* ---------------------------------------------------------------- C17
\* C17: a first line that is the directive in the bare or in the
\* comment-wrapped spelling, written with the delimiters the engine was
\* given, is recognised: layout is the quoted path.
C17_BothSpellingsFollowDelims ==
  parsed # Nil =>
    \A comment \in BOOLEAN :
      \A d \in DirectivesAt(FirstLine(input), delims, comment) :
        parsed.tf.layout \in {Join(d.path), Join(ToSlash(d.path))}

\* ---------------------------------------------------------------- C18
\* the path of file n relative to the directory, with forward slashes
RelativeName(n) == Join(<<n>>)

\* C18: after ParseDir with any spelling of the directory the files map and
\* the compiled set are keyed by the paths relative to the directory,
\* without leading separator; an extends directive that names a file of the
\* directory by that path finds it, and a caller addresses the template of
\* a file by that path.
C18_NamesRelativeToRoot ==
  phase = "parsed" =>
    /\ DOMAIN built.files = {RelativeName(n) : n \in Present(disk)}
    /\ built.ok => DOMAIN templates = {RelativeName(n) : n \in Present(disk)}
    /\ \A k \in DOMAIN built.files :
         built.files[k].layout \in {RelativeName(n) : n \in Present(disk)} =>
           built.files[k].layout \in DOMAIN built.files
    /\ (ReachedLookup /\ last.name \in {RelativeName(n) : n \in Present(disk)} /\ built.ok)
         => last.err # "lookup"

\* ---------------------------------------------------------------- C19
\* the files without layout
RootFiles(files) == (DOMAIN files) \ Extending(files)
\* what {{template "r"}} renders inside the template compiled for n
AsPartial(n, r) == Execute(Template(r, templates[n].ns, TRUE), NilCtx)
\* the definition of block X in a namespace
BlockX(ns) == IF "X" \in DOMAIN ns THEN ns["X"] ELSE Nil
\* the root r renders no block, or the template compiled for n holds the
\* shared definition of the block
NoOverride(n, r) ==
  \/ IsEmptyTree(shared[r])
  \/ shared[r].cid = 0
  \/ ContentTable[shared[r].cid].body # "callsX"
  \/ BlockX(templates[n].ns) = BlockX(shared)

\* C19 (as stated): after a build that returned nil the compiled entry of a
\* file without layout is the entry of the shared namespace itself, the
\* namespace of every extending template holds that root as the shared
\* namespace has it, and the root renders the same when it is executed from
\* the compiled set and when an extending template includes it.
C19_RootRendersSameAsPartial ==
  built.ok =>
    \A r \in RootFiles(built.files) :
      /\ templates[r] = SharedLookup(shared, r)
      /\ templates[r] # Nil
      /\ \A n \in Extending(built.files) :
           /\ r \in DOMAIN templates[n].ns
           /\ templates[n].ns[r] = shared[r]
           /\ AsPartial(n, r) = Execute(templates[r], NilCtx)

\* C19 (amended): the same, the root rendering the same from an extending
\* template when that template's chain does not redefine a block the root
\* renders; a redefined block is rendered as the chain defines it.
C19_RootReusedFromSharedNamespace ==
  built.ok =>
    \A r \in RootFiles(built.files) :
      /\ templates[r] = SharedLookup(shared, r)
      /\ templates[r] # Nil
      /\ \A n \in Extending(built.files) :
           /\ r \in DOMAIN templates[n].ns
           /\ templates[n].ns[r] = shared[r]
           /\ NoOverride(n, r) => AsPartial(n, r) = Execute(templates[r], NilCtx)
           /\ AsPartial(n, r).err = NoErr =>
                /\ AsPartial(n, r).out[1].main = shared[r]
                /\ AsPartial(n, r).out[1].X \in {EmptyTree, BlockX(templates[n].ns)}

\* C19 witness: a and b are roots, c extends b and defines X; the template
\* compiled for c holds b as the shared namespace has it and b renders the
\* same from c as from the compiled set.
C19_Witness ==
  /\ built.ok
  /\ RootFiles(built.files) = {"a", "b"} /\ Extending(built.files) = {"c"}
  /\ templates["b"] = SharedLookup(shared, "b")
  /\ templates["c"].ns["b"] = shared["b"]
  /\ BlockX(templates["c"].ns) # BlockX(shared)
  /\ AsPartial("c", "b") = Execute(templates["b"], NilCtx)
  /\ AsPartial("c", "b").err = NoErr

\* ---------------------------------------------------------------- C20
\* the ancestors found from the layout pname on: parent first, up to the
\* first layout that is empty or names no file
RECURSIVE FoundAncestors(_, _, _)
FoundAncestors(files, pname, fuel) ==
  IF pname \notin DOMAIN files \/ fuel = 0 THEN <<>>
  ELSE <<pname>> \o FoundAncestors(files, files[pname].layout, fuel - 1)
Reverse(seq) == [i \in DOMAIN seq |-> seq[Len(seq) + 1 - i]]
\* the bodies of the files `order`, parsed one after the other into the
\* template `name` of namespace ns
RECURSIVE ParseInOrder(_, _, _, _)
ParseInOrder(ns, name, files, order) ==
  IF order = <<>> THEN ns
  ELSE ParseInOrder(Parse(ns, name, files[Head(order)].contents).ns, name, files, Tail(order))
\* every file of the set parses and no chain cycles
AllParse(files) ==
  /\ ~RootFails(files)
  /\ NoCycle(files)
  /\ \A n \in DOMAIN files : ChainParses(files, n)
\* some chain of the set ends at a layout that names no file
EndsUnresolved(files, n) ==
  LET w == AncestorChain(files, n)
  IN  ~w.diverges /\ files[w.chain[Len(w.chain)]].layout # ""

\* C20: a build over files that all parse returns nil also when a layout
\* names no file of the set, at whatever level of a chain; the template of
\* an extending file is then compiled from a clone of the shared namespace,
\* the bodies of the ancestors found up to the unresolved layout, outermost
\* first, and its own body without the directive line.
C20_MissingParentEndsChain ==
  (built.via # "none" /\ phase = "parsed" /\ AllParse(built.files)) =>
     /\ built.ok
     /\ \A n \in Extending(built.files) :
          /\ built.files[n].contents.head = <<>>
          /\ templates[n] =
               Template(n, ParseInOrder(shared, n, built.files,
                                        Append(Reverse(FoundAncestors(built.files,
                                                 built.files[n].layout,
                                                 Cardinality(DOMAIN built.files))), n)),
                        TRUE)

\* C20 witness: c extends b and b extends a, which is no file of the set;
\* the build returned nil and the template compiled for c holds the
\* definitions of b overridden by those of c.
C20_Witness ==
  /\ built.ok /\ phase = "parsed"
  /\ DOMAIN built.files = {"b", "c"}
  /\ built.files["c"].layout = "b" /\ built.files["b"].layout = "a"
  /\ EndsUnresolved(built.files, "c")
  /\ DOMAIN templates["c"].ns = {"c", "X"}
  /\ templates["c"].ns["X"] = Tree(built.files["c"].contents.tail, "X")

\* ---------------------------------------------------------------- C21
\* the engine fields parseTemplates starts from in a build step
BuildStart ==
  IF phase = "new"
    THEN [shared |-> shared, sharedBackup |-> sharedBackup, templates |-> templates]
    ELSE [shared |-> Clone(sharedBackup), sharedBackup |-> sharedBackup,
          templates |-> NoTemplates]
\* what parseTemplates makes of the files in every order of the two loops
BuildsInEveryOrder(e, files) ==
  { parseTemplates(e, files, o1, o2) :
      o1 \in Orders(DOMAIN files), o2 \in Orders(DOMAIN files) }
\* the output of template n of a build
Rendered(r, n) == ExecuteLooked(r.templates, n, <<>>)

\* C21: for a file set that parses without error, the shared namespace, the
\* compiled set and the output of every template that a build produces are
\* the same for every order in which the files map is iterated, also when
\* two files without layout define a block of the same name.
C21_BuildIndependentOfMapOrder ==
  [][ (BuildStep /\ \A r \in BuildsInEveryOrder(BuildStart, built'.files) :
                      r.err = NoErr /\ ~r.hung) =>
        \A r \in BuildsInEveryOrder(BuildStart, built'.files) :
          /\ r.shared = shared'
          /\ r.templates = templates'
          /\ \A n \in DOMAIN built'.files :
               Rendered(r, n) = ExecuteLooked(templates', n, <<>>) ]_vars

\* ---------------------------------------------------------------- C22
\* the step in which the reload of caller p reads its listed files and a
\* read fails
ReadFailure(p) ==
  /\ callers[p].pc = "load"
  /\ callers'[p].pc # "load"
  /\ ReadFails(disk, callers[p].paths)

\* C22: when the read of a listed file fails during the reload of an
\* ExecuteTemplate call, the call returns the error without looking up or
\* executing a template, and the stored fingerprint, the shared namespace
\* and the compiled set stay as they were: the fingerprint found by the scan
\* is not the stored one, so the next call compares against the old one.
C22_ReadErrorLeavesEngineUntouched ==
  [][ \A p \in Callers :
        ReadFailure(p) =>
          /\ callers'[p].pc = "idle"
          /\ callers'[p].err = "read"
          /\ callers'[p].out = <<>>
          /\ UNCHANGED <<fileTreeHash, shared, sharedBackup, templates>>
          /\ fileTreeHash' # callers'[p].hash ]_vars

\* a call has returned the error of a read, the file it listed is gone and
\* the stored fingerprint is still the one of before the scan
C22_Witness ==
  \E p \in Callers :
    /\ callers[p].pc = "idle"
    /\ callers[p].err = "read"
    /\ ReadFails(disk, callers[p].paths)
    /\ fileTreeHash # callers[p].hash
    /\ autoReload

====
